---- MODULE Spec2Model ----
(***************************************************************************)
(* DocAligner: standards resolution and compatibility-gated compliance.    *)
(*                                                                         *)
(* SpecAssign models the folder/document tables, the StandardAssignment    *)
(* table with the three operations that write it, and the inheritance      *)
(* resolver (one step of its ancestor loop per action).                    *)
(* SpecFlow models DecisionFlowService.apply, one phase per action, over   *)
(* the full range of oracle answers.                                       *)
(* SpecEndpoint models the fix / apply endpoints around apply(), with the  *)
(* blob store and the ValidationResult rows they write.                    *)
(* SpecStore models upload, validation and fix as the blob store sees      *)
(* them, with object names built from document ids and file names.         *)
(* SpecValidate models ValidationService.validate_document, one block of   *)
(* its code per action, over files of every format it distinguishes.       *)
(* SpecCorrupt runs the resolver on folder tables with parent cycles.      *)
(* SpecConcurrent interleaves assign_standard requests on one table.       *)
(* SpecAugment models ValidationService.validate_document_async: the       *)
(* deterministic report merged with the compliance oracle's answer, and    *)
(* the status the task and the validate endpoint store with it.            *)
(* SpecPromote interleaves promote requests on one standard's versions.    *)
(* SpecJobs models the task queue: the jobs assign_standard and upload     *)
(* dispatch, delivered in any order and more than once.                    *)
(* SpecRevalidate follows one folder-level assignment at a time through    *)
(* its re-validation, on every folder forest and document placement.       *)
(* SpecFix models the fix / apply endpoints on a ValidationResult table    *)
(* with several documents and several results per document.                *)
(***************************************************************************)
EXTENDS Integers, Sequences, FiniteSets, Bags, TLC

\* ---------------------------------------------------------------- bounds
MaxFolders == 2
MaxDocs == 1
MaxRows == 3

\* ------------------------------------------------------------- constants
NoId == 0
Versions == {"V1", "V2"}
NoVersion == "None"
FOLDER == "FOLDER"
DOCUMENT == "DOCUMENT"
TargetType == {FOLDER, DOCUMENT}

VARIABLES
    folders,      \* Folder table: folders[f] is the parent_id of folder f
    docs,         \* Document table: docs[i] is the folder_id of document DocId(i)
    assignments,  \* StandardAssignment table, a bag of rows
    resolver,     \* the running get_effective_standard_version call
    configured,   \* AIService.client is not None (set once at start-up)
    flow,         \* the locals of the running fix / apply request
    report,       \* what DecisionFlowService.apply returned
    oracle_log,   \* the phase calls made by the running request, in order
    storage,      \* the blob store: object name -> content
    results,      \* the ValidationResult rows of the document, oldest first
    documents,    \* Document rows as the blob store sees them: id, filename, key, hash
    validation,   \* the locals of the running validate_document call
    reports,      \* the report validate_document returned, per input it was called on
    requests,     \* the concurrent assign_standard requests and their locals
    augment,      \* the locals of the running ValidationService.validate_document_async
    queue,        \* the task queue: the jobs dispatched and not yet acknowledged
    dispatched,   \* what the latest request or folder re-validation dispatched
    versions,     \* StandardVersion table of one standard, in creation order
    promotions    \* the concurrent promote requests and their locals

lateVars == <<augment, queue, dispatched, versions, promotions>>
extVars == <<documents, validation, reports, requests, lateVars>>
assignVars == <<folders, docs, assignments, resolver, extVars>>
flowVars == <<configured, flow, report, oracle_log, storage, results, extVars>>
vars == <<folders, docs, assignments, resolver,
          configured, flow, report, oracle_log, storage, results,
          documents, validation, reports, requests,
          augment, queue, dispatched, versions, promotions>>

\* ------------------------------------------------------------ the tables
\* Folder ids are 1..Len(folders); folders[f] is the parent_id of folder f.
FolderIds == 1..Len(folders)
\* Document ids follow the folder ids; docs[i] is the folder_id of document DocId(i).
DocId(i) == MaxFolders + i
DocIds == {DocId(i) : i \in 1..Len(docs)}
DocFolder(d) == docs[d - MaxFolders]

Row(t, ty, v) == [target_id |-> t, target_type |-> ty, standard_version_id |-> v]

\* select(StandardAssignment).where(target_id == t, target_type == ty)
RowsFor(t, ty) ==
    {r \in BagToSet(assignments) : r.target_id = t /\ r.target_type = ty}

\* ... with the additional .where(standard_version_id == v)
RowsForVersion(t, ty, v) ==
    {r \in RowsFor(t, ty) : r.standard_version_id = v}

\* number of rows a query returns (rows are counted with multiplicity)
RowCount(rs) == BagCardinality([r \in rs |-> CopiesIn(r, assignments)])

\* ------------------------------------------------- decision-flow values
HighThreshold == 75
MediumThreshold == 40
FailedMaxLen == 200
MaxRuleList == 1
MaxResults == 1

\* total_score values the compatibility oracle is asked to return
Scores == {0, 39, 40, 74, 75, 100}
NoScore == -1
RiskLevels == {"HIGH", "MEDIUM", "LOW"}
Rules == {"formatting.headings", "language.modal_verbs"}
Absent == "absent"
NoError == "none"
NotConfigured == "AI Service not configured"
NoTextError == "Could not extract text from document"
CompatibilityError == "Compatibility analysis failed"
SelectionError == "Rule selection failed"
TransformError == "AI transformation failed"

\* A Python str seen through len() and `"failed" in s.lower()`, or None.
Str(n, f) == [kind |-> "str", len |-> n, failed |-> f]
NoneText == [kind |-> "None", len |-> 0, failed |-> FALSE]
AbsentText == [kind |-> Absent, len |-> 0, failed |-> FALSE]
EmptyStr == Str(0, FALSE)
\* Python truthiness of a str-or-None value
Truthy(t) == t.kind = "str" /\ t.len > 0

RuleLists == UNION {[1..n -> Rules] : n \in 0..MaxRuleList}

\* dict results of the oracle: a missing key is Absent / NoScore / <<>>
CompatDict(err, score, risk) ==
    [error |-> err, total_score |-> score, risk_classification |-> risk]
NoCompat == CompatDict(NoError, NoScore, Absent)
SelectionDict(err, safe, cond, forb) ==
    [error |-> err, safe_rules |-> safe, conditional_rules |-> cond,
     forbidden_rules |-> forb]
TransformDict(err, text) == [error |-> err, transformed_text |-> text]

\* the rule_selection entry of a report: absent, None, or the three lists
NoSelection(state) ==
    [state |-> state, safe_rules |-> <<>>, conditional_rules |-> <<>>,
     forbidden_rules |-> <<>>]

\* object names in the blob store
SourceKey == "{document_id}/{filename}"
FixedKey == "fixed/{document_id}/{filename}.fixed.txt"
SourceBytes == Str(FailedMaxLen, FALSE)

NoReport ==
    [error |-> NoError, text |-> "", compatibility |-> NoCompat,
     score |-> NoScore, risk |-> Absent, rule_selection |-> NoSelection(Absent),
     action |-> Absent, warnings |-> <<>>, transformed_content |-> AbsentText]
\* the response body of the fix / apply endpoints, before it is built
NoBody ==
    [fixed_content |-> AbsentText, action |-> Absent, score |-> NoScore,
     risk |-> Absent]
FlowIdle ==
    [pc |-> "idle", endpoint |-> Absent, analysis |-> NoReport,
     rule_selection |-> NoSelection(Absent), action |-> Absent,
     approved |-> <<>>, warnings |-> <<>>, status |-> 0,
     upload |-> Absent, body |-> NoBody]
NoDecisionFlow == [action |-> Absent, score |-> NoScore, risk |-> Absent]

\* ------------------------------------------------------------- Init
ResolverIdle ==
    [pc |-> "idle", target_id |-> NoId, target_type |-> FOLDER,
     current_folder_id |-> NoId, result |-> NoVersion]

\* validate_document's `report = {"compliant": True, "errors": [], ...}`
FreshReport ==
    [compliant |-> TRUE, errors |-> <<>>, warnings |-> <<>>, format |-> Absent]
\* no validate_document call is running
ValidationIdle ==
    [pc |-> "idle", file |-> Absent, rules |-> Absent, report |-> FreshReport,
     keys |-> <<>>]
\* no returned report is remembered
NoReports == [set |-> FALSE, file |-> Absent, rules |-> Absent,
              report |-> FreshReport]

\* no merged validation is running
AugmentIdle ==
    [pc |-> "idle", deterministic |-> FreshReport,
     report |-> [compliant |-> TRUE, errors |-> <<>>, warnings |-> <<>>,
                 format |-> Absent, ai_evaluation |-> Absent, score |-> -1,
                 fix_options |-> FALSE],
     text |-> "",
     ai_report |-> [kind |-> Absent, compliant |-> FALSE, compliance_score |-> 0,
                    violations |-> <<>>, auto_fix_possible |-> FALSE]]

\* no handler has dispatched a job yet
NoDispatch ==
    [cause |-> Absent, target_id |-> NoId, target_type |-> FOLDER,
     version |-> NoVersion, folder_ids |-> {}, jobs |-> EmptyBag]

InitLate ==
    /\ augment = AugmentIdle
    /\ queue = EmptyBag
    /\ dispatched = NoDispatch
    /\ versions = <<>>
    /\ promotions = <<>>

\* the state of the parts a specification does not exercise
InitExt ==
    /\ documents = {}
    /\ validation = ValidationIdle
    /\ reports = NoReports
    /\ requests = <<>>
    /\ InitLate

InitAssign ==
    /\ folders = <<>>
    /\ docs = <<>>
    /\ assignments = EmptyBag
    /\ resolver = ResolverIdle
    /\ configured = TRUE
    /\ flow = FlowIdle
    /\ report = NoReport
    /\ oracle_log = <<>>
    /\ storage = [k \in {SourceKey} |-> SourceBytes]
    /\ results = <<>>
    /\ InitExt

\* ------------------------------------------------------ folders, uploads
\* POST /folders: the parent is an existing folder (foreign key) or null.
create_folder(parent) ==
    /\ resolver.pc = "idle"
    /\ Len(folders) < MaxFolders
    /\ parent \in FolderIds \cup {NoId}
    /\ folders' = Append(folders, parent)
    /\ UNCHANGED <<docs, assignments, resolver, flowVars>>

\* POST /documents/upload: a new document row with the given folder_id.
upload_document(folder_id) ==
    /\ resolver.pc = "idle"
    /\ Len(docs) < MaxDocs
    /\ folder_id \in FolderIds \cup {NoId}
    /\ docs' = Append(docs, folder_id)
    /\ UNCHANGED <<folders, assignments, resolver, flowVars>>

\* ------------------------------------------------------------ assignment
\* POST /assignments: update the first row of the target, else insert one.
assign_standard(t, ty, v) ==
    /\ resolver.pc = "idle"
    /\ IF RowsFor(t, ty) # {}
       THEN \E existing \in RowsFor(t, ty) :
                assignments' = (assignments (-) SetToBag({existing}))
                               (+) SetToBag({Row(t, ty, v)})
       ELSE /\ BagCardinality(assignments) < MaxRows
            /\ assignments' = assignments (+) SetToBag({Row(t, ty, v)})
    /\ UNCHANGED <<folders, docs, resolver, flowVars>>

\* StandardService.apply_to_document: looks for a row of the SAME version.
apply_to_document(v, d) ==
    /\ resolver.pc = "idle"
    /\ IF RowCount(RowsForVersion(d, DOCUMENT, v)) > 1
       THEN UNCHANGED assignments            \* scalar_one_or_none raises
       ELSE IF RowsForVersion(d, DOCUMENT, v) # {}
       THEN UNCHANGED assignments            \* existing: only re-validation
       ELSE /\ BagCardinality(assignments) < MaxRows
            /\ assignments' = assignments (+) SetToBag({Row(d, DOCUMENT, v)})
    /\ UNCHANGED <<folders, docs, resolver, flowVars>>

\* _get_all_subfolder_ids: the folder and all its descendants.
RECURSIVE SubfolderIds(_)
SubfolderIds(f) ==
    LET children == {c \in FolderIds : folders[c] = f}
        Rec[cs \in SUBSET children] ==
            IF cs = {} THEN {}
            ELSE LET c == CHOOSE x \in cs : TRUE
                 IN  SubfolderIds(c) \cup Rec[cs \ {c}]
    IN  {f} \cup Rec[children]

\* StandardService.apply_to_folder
apply_to_folder(v, f, recursive) ==
    LET folder_ids == IF recursive THEN SubfolderIds(f) ELSE {f}
        affected   == {d \in DocIds : DocFolder(d) \in folder_ids}
        folderRow  == IF RowsForVersion(f, FOLDER, v) = {}
                      THEN SetToBag({Row(f, FOLDER, v)}) ELSE EmptyBag
        docRowsOld == {r \in BagToSet(assignments) :
                          r.target_type = DOCUMENT /\ r.target_id \in affected}
        kept       == [r \in BagToSet(assignments) \ docRowsOld
                          |-> CopiesIn(r, assignments)]
        docRowsNew == SetToBag({Row(d, DOCUMENT, v) : d \in affected})
        result     == kept (+) folderRow (+) docRowsNew
        raises     == \/ RowCount(RowsForVersion(f, FOLDER, v)) > 1
                      \/ \E d \in affected : RowCount(RowsFor(d, DOCUMENT)) > 1
    IN  /\ resolver.pc = "idle"
        /\ IF raises
           THEN UNCHANGED assignments        \* scalar_one_or_none raises
           ELSE /\ BagCardinality(result) <= MaxRows
                /\ assignments' = result
        /\ UNCHANGED <<folders, docs, resolver, flowVars>>

\* --------------------------------------------------------------- resolver
\* The versions of the rows a query returned; .first() yields any of them.
VersionsOf(rs) == {r.standard_version_id : r \in rs}

\* Step 2 of the resolver: the folder the ancestor walk starts from.
FirstFolder(t, ty) ==
    IF ty = DOCUMENT
    THEN IF t \in DocIds THEN DocFolder(t) ELSE NoId
    ELSE IF t \in FolderIds THEN folders[t] ELSE NoId

\* Faulty variant: the ancestor query filters on the target's own type
AncestorRows_TargetType(f) == RowsFor(f, resolver.target_type)

\* The rows the loop body looks at for the current folder.
AncestorRows(f) == RowsFor(f, FOLDER)

\* get_effective_standard_version, up to the entry of the while loop.
ResolveStart(t, ty) ==
    /\ resolver.pc = "idle"
    /\ IF RowsFor(t, ty) # {}
       THEN \E v \in VersionsOf(RowsFor(t, ty)) :
                resolver' = [pc |-> "done", target_id |-> t, target_type |-> ty,
                             current_folder_id |-> NoId, result |-> v]
       ELSE resolver' = [pc |-> "walk", target_id |-> t, target_type |-> ty,
                         current_folder_id |-> FirstFolder(t, ty),
                         result |-> NoVersion]
    /\ UNCHANGED <<folders, docs, assignments, flowVars>>

\* One iteration of `while current_folder_id:` (or its exit).
ResolveStep ==
    /\ resolver.pc = "walk"
    /\ LET cur == resolver.current_folder_id IN
       IF cur = NoId
       THEN resolver' = [resolver EXCEPT !.pc = "done"]
       ELSE IF AncestorRows(cur) # {}
       THEN \E v \in VersionsOf(AncestorRows(cur)) :
                resolver' = [resolver EXCEPT !.pc = "done", !.result = v]
       ELSE IF cur \notin FolderIds
       THEN resolver' = [resolver EXCEPT !.pc = "done"]
       ELSE resolver' = [resolver EXCEPT !.current_folder_id = folders[cur]]
    /\ UNCHANGED <<folders, docs, assignments, flowVars>>

\* The caller takes the result.
ResolveReturn ==
    /\ resolver.pc = "done"
    /\ resolver' = ResolverIdle
    /\ UNCHANGED <<folders, docs, assignments, flowVars>>

\* ------------------------------------------------------------------ Next
\* What a client can name as a target: an existing folder or document.
Targets == {<<f, FOLDER>> : f \in FolderIds} \cup {<<d, DOCUMENT>> : d \in DocIds}

NextAssign ==
    \/ \E p \in 0..MaxFolders : create_folder(p)
    \/ \E p \in 0..MaxFolders : upload_document(p)
    \/ \E tt \in Targets, v \in Versions : assign_standard(tt[1], tt[2], v)
    \/ \E d \in DocIds, v \in Versions : apply_to_document(v, d)
    \/ \E f \in FolderIds, v \in Versions, rec \in BOOLEAN : apply_to_folder(v, f, rec)
    \/ \E tt \in Targets : ResolveStart(tt[1], tt[2])
    \/ ResolveStep
    \/ ResolveReturn

SpecAssign == InitAssign /\ [][NextAssign]_vars

\* ======================================================================
\* The decision flow: one fix / apply request at a time runs the phases
\* extract text -> analyze compatibility -> select rules -> transform, then
\* the endpoint stores the fixed artifact and answers.
\* ======================================================================
LogEntry(op, ok, text, score, approved, returned) ==
    [op |-> op, ok |-> ok, text |-> text, score |-> score,
     approved |-> approved, returned |-> returned]

\* what extract_text can yield: nothing, the text, or its own error message
ExtractOutcomes == {"", "document text", "Error extracting text: ..."}
CompatOutcomes ==
    {CompatDict(CompatibilityError, NoScore, Absent)}
    \cup {CompatDict(NoError, s, r) : s \in Scores, r \in RiskLevels}
SelectionOutcomes ==
    {SelectionDict(SelectionError, <<>>, <<>>, <<>>)}
    \cup {SelectionDict(NoError, a, b, c) : a \in RuleLists, b \in RuleLists, c \in RuleLists}
TransformTexts ==
    {EmptyStr, Str(FailedMaxLen - 1, TRUE), Str(FailedMaxLen - 1, FALSE),
     Str(FailedMaxLen, TRUE), Str(FailedMaxLen, FALSE)}
TransformOutcomes ==
    {TransformDict(TransformError, EmptyStr)}
    \cup {TransformDict(NoError, t) : t \in TransformTexts}

\* Faulty variant: the credential check is missing
is_available_Always == TRUE

\* AIService.is_available
is_available == configured

\* `"error" in d` for the dicts the phases hand on
AnalyzeFailed(compatibility) == compatibility.error # NoError
ApplyAnalysisFailed(analysis) == analysis.error # NoError
\* Faulty variant: the error of rule selection is not looked at
SelectFailed_Never(rule_selection) == FALSE
SelectFailed(rule_selection) == rule_selection.error # NoError
ResultHasError(result) == result.error # NoError

\* Faulty variant: a remembered score is used instead of the one just returned
TotalScore_Stale(compatibility) == HighThreshold

\* compatibility.get("total_score", 0) / .get("risk_classification", "LOW")
TotalScore(compatibility) ==
    IF compatibility.total_score = NoScore THEN 0 ELSE compatibility.total_score
RiskClassification(compatibility) ==
    IF compatibility.risk_classification = Absent
    THEN "LOW" ELSE compatibility.risk_classification

\* DecisionFlowService.analyze, after text extraction
AnalysisOf(text, compatibility) ==
    IF AnalyzeFailed(compatibility)
    THEN [NoReport EXCEPT !.error = compatibility.error]
    ELSE [NoReport EXCEPT !.text = text, !.compatibility = compatibility,
                          !.score = TotalScore(compatibility),
                          !.risk = RiskClassification(compatibility)]

\* Faulty variant: the upper boundary is exclusive
GateAction_StrictHigh(score) ==
    IF score > HighThreshold THEN "safe_apply"
    ELSE IF score >= MediumThreshold THEN "selective_apply"
    ELSE "report_only"

\* the if / elif / else on the score in apply()
GateAction(score) ==
    IF score >= HighThreshold THEN "safe_apply"
    ELSE IF score >= MediumThreshold THEN "selective_apply"
    ELSE "report_only"

ApprovedRules(score, sel) ==
    IF score >= HighThreshold THEN sel.safe_rules \o sel.conditional_rules
    ELSE IF score >= MediumThreshold THEN sel.safe_rules \o sel.conditional_rules
    ELSE <<>>

\* Faulty variant: the conditional rules are flagged in the high tier too
GateWarnings_HighToo(score, sel) ==
    IF score >= MediumThreshold THEN sel.conditional_rules ELSE <<>>

\* one warning per conditional rule, identified here by the rule's path
GateWarnings(score, sel) ==
    IF score >= HighThreshold THEN <<>>
    ELSE IF score >= MediumThreshold THEN sel.conditional_rules
    ELSE <<>>

\* Faulty variant: the approved list is not looked at
ShouldTransform_ActionOnly(action, approved) == action # "report_only"

\* `if action != "report_only" and approved:`
ShouldTransform(action, approved) == action # "report_only" /\ approved # <<>>

\* `transformed_content and "failed" in ... and len(transformed_content) < 200`
IsFailedTransform(t) == Truthy(t) /\ t.failed /\ t.len < FailedMaxLen

\* the dict apply() returns when every phase ran or was skipped by the gate
BuildReport(analysis, sel, action, warnings, content) ==
    [NoReport EXCEPT
        !.text = analysis.text, !.compatibility = analysis.compatibility,
        !.score = analysis.score, !.risk = analysis.risk,
        !.rule_selection = [state |-> "present", safe_rules |-> sel.safe_rules,
                            conditional_rules |-> sel.conditional_rules,
                            forbidden_rules |-> sel.forbidden_rules],
        !.action = action, !.warnings = warnings,
        !.transformed_content = content]

\* Faulty variant: the artifact is saved whatever the report holds
ShouldSave_Always(result) == TRUE

\* the endpoint's `if result.get("transformed_content"):`
ShouldSave(result) == Truthy(result.transformed_content)

InitFlow ==
    /\ folders = <<>>
    /\ docs = <<>>
    /\ assignments = EmptyBag
    /\ resolver = ResolverIdle
    /\ configured \in BOOLEAN
    /\ flow = FlowIdle
    /\ report = NoReport
    /\ oracle_log = <<>>
    /\ storage = [k \in {SourceKey} |-> SourceBytes]
    /\ results = <<>>
    /\ InitExt

\* tasks.validate_document_async: a new ValidationResult row for the document
StatusOf(compliant, has_warnings) ==
    IF compliant /\ has_warnings THEN "WARN"
    ELSE IF compliant THEN "PASS" ELSE "FAIL"

validate_document_async(compliant, has_warnings) ==
    /\ flow.pc = "idle"
    /\ Len(results) < MaxResults
    /\ results' = Append(results,
          [status |-> StatusOf(compliant, has_warnings),
           fixed_content |-> AbsentText, fixed_path |-> Absent,
           decision_flow |-> NoDecisionFlow])
    /\ UNCHANGED <<assignVars, configured, flow, report, oracle_log, storage>>

\* fix_document / apply_with_decision_flow up to the call of apply():
\* the document exists, it has an effective standard, its bytes are read.
Invoke(endpoint) ==
    /\ flow.pc = "idle"
    /\ flow' = [FlowIdle EXCEPT !.pc = "extract", !.endpoint = endpoint]
    /\ report' = NoReport
    /\ oracle_log' = <<>>
    /\ UNCHANGED <<assignVars, configured, storage, results>>

\* analyze(): rule_extraction_factory.extract_text and `if not text`
ExtractText(text) ==
    /\ flow.pc = "extract"
    /\ oracle_log' = Append(oracle_log,
          LogEntry("extract_text", text # "", text, NoScore, <<>>, AbsentText))
    /\ IF text = ""
       THEN /\ report' = [NoReport EXCEPT !.error = NoTextError]
            /\ flow' = [flow EXCEPT !.pc = "returned"]
       ELSE /\ flow' = [flow EXCEPT !.pc = "analyze", !.analysis.text = text]
            /\ UNCHANGED report
    /\ UNCHANGED <<assignVars, configured, storage, results>>

\* analyze(): ai_service.analyze_compatibility; apply(): `if "error" in analysis`
AnalyzeCompatibility(outcome) ==
    /\ flow.pc = "analyze"
    /\ LET compatibility == IF is_available THEN outcome
                            ELSE CompatDict(NotConfigured, NoScore, Absent)
           analysis == AnalysisOf(flow.analysis.text, compatibility)
       IN  /\ oracle_log' = Append(oracle_log,
                 LogEntry("analyze_compatibility", compatibility.error = NoError,
                          flow.analysis.text, compatibility.total_score, <<>>,
                          AbsentText))
           /\ IF ApplyAnalysisFailed(analysis)
              THEN /\ report' = analysis
                   /\ flow' = [flow EXCEPT !.pc = "returned"]
              ELSE /\ flow' = [flow EXCEPT !.pc = "select", !.analysis = analysis]
                   /\ UNCHANGED report
    /\ UNCHANGED <<assignVars, configured, storage, results>>

\* apply(): ai_service.select_rules, the gate, and the report when the
\* transform phase is skipped
SelectRules(outcome) ==
    /\ flow.pc = "select"
    /\ LET sel == IF is_available THEN outcome
                  ELSE SelectionDict(NotConfigured, <<>>, <<>>, <<>>)
           score == flow.analysis.score
           action == GateAction(score)
           approved == ApprovedRules(score, sel)
           warnings == GateWarnings(score, sel)
       IN  /\ oracle_log' = Append(oracle_log,
                 LogEntry("select_rules", sel.error = NoError, "", score, <<>>,
                          AbsentText))
           /\ IF SelectFailed(sel)
              THEN /\ report' = [flow.analysis EXCEPT
                                    !.rule_selection = NoSelection("None"),
                                    !.error = sel.error]
                   /\ flow' = [flow EXCEPT !.pc = "returned"]
              ELSE IF ShouldTransform(action, approved)
              THEN /\ flow' = [flow EXCEPT !.pc = "transform",
                                  !.rule_selection = [NoSelection("present") EXCEPT
                                       !.safe_rules = sel.safe_rules,
                                       !.conditional_rules = sel.conditional_rules,
                                       !.forbidden_rules = sel.forbidden_rules],
                                  !.action = action, !.approved = approved,
                                  !.warnings = warnings]
                   /\ UNCHANGED report
              ELSE /\ report' = BuildReport(flow.analysis, sel, action, warnings,
                                            NoneText)
                   /\ flow' = [flow EXCEPT !.pc = "returned", !.action = action,
                                  !.approved = approved, !.warnings = warnings]
    /\ UNCHANGED <<assignVars, configured, storage, results>>

\* apply(): ai_service.transform_document, the failure check and the report
TransformDocument(outcome) ==
    /\ flow.pc = "transform"
    /\ LET transform_result == IF is_available THEN outcome
                               ELSE TransformDict(NotConfigured, EmptyStr)
           text == transform_result.transformed_text
           content == IF IsFailedTransform(text) THEN NoneText ELSE text
       IN  /\ oracle_log' = Append(oracle_log,
                 LogEntry("transform_document", transform_result.error = NoError,
                          flow.analysis.text, flow.analysis.score, flow.approved,
                          text))
           /\ report' = BuildReport(flow.analysis, flow.rule_selection, flow.action,
                                    flow.warnings, content)
           /\ flow' = [flow EXCEPT !.pc = "returned"]
    /\ UNCHANGED <<assignVars, configured, storage, results>>

\* endpoint: `if "error" in result: raise HTTPException(500)`
RespondError ==
    /\ flow.pc = "returned"
    /\ ResultHasError(report)
    /\ flow' = [flow EXCEPT !.pc = "responded", !.status = 500]
    /\ UNCHANGED <<assignVars, configured, report, oracle_log, storage, results>>

\* Faulty variant: the upload is not wrapped in try / except
UploadErrorCaught_Not == FALSE

\* the endpoint's `try: minio_client.upload_file(...) except Exception: print`
UploadErrorCaught == TRUE

\* endpoint: minio_client.upload_file of the fixed artifact; a failure is
\* caught and printed
SaveFixedArtifact(upload_ok) ==
    /\ flow.pc = "returned"
    /\ ~ResultHasError(report)
    /\ ShouldSave(report)
    /\ storage' = IF upload_ok
                  THEN [k \in DOMAIN storage \cup {FixedKey} |->
                           IF k = FixedKey THEN report.transformed_content
                           ELSE storage[k]]
                  ELSE storage
    /\ flow' = IF upload_ok
               THEN [flow EXCEPT !.pc = "saved", !.upload = "stored"]
               ELSE IF UploadErrorCaught
               THEN [flow EXCEPT !.pc = "saved", !.upload = "failed"]
               ELSE [flow EXCEPT !.pc = "responded", !.upload = "failed",
                                 !.status = 500]
    /\ UNCHANGED <<assignVars, configured, report, oracle_log, results>>

\* endpoint: the latest ValidationResult of the document gets the fix
UpdateValidationResult ==
    /\ flow.pc = "saved"
    /\ IF results # <<>>
       THEN results' = [results EXCEPT ![Len(results)] =
                [@ EXCEPT !.fixed_content = report.transformed_content,
                          !.fixed_path = FixedKey,
                          !.decision_flow = [action |-> report.action,
                                             score |-> report.score,
                                             risk |-> report.risk]]]
       ELSE UNCHANGED results
    /\ flow' = [flow EXCEPT !.pc = "audit"]
    /\ UNCHANGED <<assignVars, configured, report, oracle_log, storage>>

\* endpoint: audit entry and the 200 response
Respond ==
    /\ \/ flow.pc = "audit"
       \/ flow.pc = "returned" /\ ~ResultHasError(report) /\ ~ShouldSave(report)
    /\ flow' = [flow EXCEPT !.pc = "responded", !.status = 200,
                        !.body = [fixed_content |-> report.transformed_content,
                                  action |-> report.action,
                                  score |-> report.score,
                                  risk |-> report.risk]]
    /\ UNCHANGED <<assignVars, configured, report, oracle_log, storage, results>>

\* the request is over; the next one starts from fresh locals
Finish ==
    /\ flow.pc = "responded"
    /\ flow' = FlowIdle
    /\ report' = NoReport
    /\ oracle_log' = <<>>
    /\ UNCHANGED <<assignVars, configured, storage, results>>

\* apply() seen on its own: the caller takes the report
ApplyReturn ==
    /\ flow.pc = "returned"
    /\ flow' = FlowIdle
    /\ report' = NoReport
    /\ oracle_log' = <<>>
    /\ UNCHANGED <<assignVars, configured, storage, results>>

\* DecisionFlowService.apply over the full range of oracle answers
NextFlow ==
    \/ \E ep \in {"fix", "apply"} : Invoke(ep)
    \/ \E t \in ExtractOutcomes : ExtractText(t)
    \/ \E o \in CompatOutcomes : AnalyzeCompatibility(o)
    \/ \E o \in SelectionOutcomes : SelectRules(o)
    \/ \E o \in TransformOutcomes : TransformDocument(o)
    \/ ApplyReturn

SpecFlow == InitFlow /\ [][NextFlow]_vars

\* The two endpoints around apply(), with the stored artifacts and results;
\* the oracle answers are one per branch of the pipeline.
EndpointScores == {MediumThreshold - 1, HighThreshold}
EndpointCompatOutcomes ==
    {CompatDict(CompatibilityError, NoScore, Absent)}
    \cup {CompatDict(NoError, s, r) : s \in EndpointScores, r \in {"HIGH", "LOW"}}
EndpointSelectionOutcomes ==
    {SelectionDict(SelectionError, <<>>, <<>>, <<>>)}
    \cup {SelectionDict(NoError, a, <<>>, <<>>) : a \in RuleLists}

NextEndpoint ==
    \/ \E c \in BOOLEAN, w \in BOOLEAN : validate_document_async(c, w)
    \/ \E ep \in {"fix", "apply"} : Invoke(ep)
    \/ \E t \in {"", "document text"} : ExtractText(t)
    \/ \E o \in EndpointCompatOutcomes : AnalyzeCompatibility(o)
    \/ \E o \in EndpointSelectionOutcomes : SelectRules(o)
    \/ \E o \in TransformOutcomes : TransformDocument(o)
    \/ RespondError
    \/ \E ok \in BOOLEAN : SaveFixedArtifact(ok)
    \/ UpdateValidationResult
    \/ Respond
    \/ Finish

SpecEndpoint == InitFlow /\ [][NextEndpoint]_vars

\* ======================================================================
\* The blob store seen by upload, validation and fix. An object name is a
\* path: the sequence of its "/"-separated segments, each segment the
\* sequence of the pieces it is written with.
\* ======================================================================
MaxUploads == 2

\* str(uuid.uuid4()) of the i-th id drawn
UuidPool == <<"uuid4-1", "uuid4-2", "uuid4-3", "uuid4-4">>
Uuid(i) == UuidPool[i]
FixedSuffix == ".fixed.txt"

\* file.filename as the client sends it: plain, already carrying the suffix,
\* spelling out the fixed path of another document, or starting with an id
FileNames ==
    { << <<"a.txt">> >>,
      << <<"a.txt", FixedSuffix>> >>,
      << <<"fixed">>, <<Uuid(1)>>, <<"a.txt", FixedSuffix>> >>,
      << <<Uuid(1)>>, <<"a.txt">> >> }

\* f"{doc_id}/{file.filename}"
object_name(doc_id, filename) == << <<doc_id>> >> \o filename

\* Faulty variant: the fixed text is written over the source object
fixed_object_name_InPlace(document_id, filename) ==
    object_name(document_id, filename)

\* f"fixed/{document_id}/{document.filename}.fixed.txt"
fixed_object_name(document_id, filename) ==
    << <<"fixed">>, <<document_id>> >>
    \o [filename EXCEPT ![Len(filename)] = Append(@, FixedSuffix)]

\* bytes objects, and str.encode("utf-8")
Bytes(n, f) == [kind |-> "bytes", len |-> n, failed |-> f]
Encode(t) == Bytes(t.len, t.failed)
\* hashlib.sha256(content).hexdigest()
Sha256(content) == [sha256 |-> content]

UploadContents == {Bytes(FailedMaxLen, FALSE)}

\* what apply() hands to the endpoint: an error, a report without
\* transformed content, a report with it
ApplyResults ==
    { [NoReport EXCEPT !.error = CompatibilityError],
      [NoReport EXCEPT !.action = "report_only", !.score = MediumThreshold - 1,
                       !.risk = "LOW", !.transformed_content = NoneText],
      [NoReport EXCEPT !.action = "safe_apply", !.score = HighThreshold,
                       !.risk = "HIGH",
                       !.transformed_content = Str(FailedMaxLen + 1, FALSE)] }

InitStore ==
    /\ folders = <<>>
    /\ docs = <<>>
    /\ assignments = EmptyBag
    /\ resolver = ResolverIdle
    /\ configured = TRUE
    /\ flow = FlowIdle
    /\ report = NoReport
    /\ oracle_log = <<>>
    /\ storage = [k \in {} |-> EmptyStr]
    /\ results = <<>>
    /\ documents = {}
    /\ validation = ValidationIdle
    /\ reports = NoReports
    /\ requests = <<>>
    /\ InitLate

\* minio_client.upload_file: put_object under the given name
PutObject(store, name, content) ==
    [k \in DOMAIN store \cup {name} |-> IF k = name THEN content ELSE store[k]]

\* POST /documents/upload seen from the blob store: a fresh id, the object
\* written under {doc_id}/{filename}, the Document row with name and hash
upload_document_blob(i, filename, content) ==
    /\ Cardinality(documents) < MaxUploads
    /\ \A d \in documents : d.id # Uuid(i)
    /\ LET name == object_name(Uuid(i), filename) IN
       /\ storage' = PutObject(storage, name, content)
       /\ documents' = documents \cup
             {[id |-> Uuid(i), filename |-> filename,
               minio_version_id |-> name, hash |-> Sha256(content)]}
    /\ UNCHANGED <<folders, docs, assignments, resolver, configured, flow,
                   report, oracle_log, results, validation, reports, requests,
                   lateVars>>

\* tasks.validate_document_async seen from the blob store: the object is
\* read, a ValidationResult row is added
validate_document_task(d, compliant, has_warnings) ==
    /\ d \in documents
    /\ d.minio_version_id \in DOMAIN storage
    /\ Len(results) < MaxResults
    /\ results' = Append(results,
          [document_id |-> d.id, status |-> StatusOf(compliant, has_warnings),
           fixed_content |-> AbsentText, fixed_path |-> <<>>,
           decision_flow |-> NoDecisionFlow])
    /\ UNCHANGED <<folders, docs, assignments, resolver, configured, flow,
                   report, oracle_log, storage, documents, validation, reports,
                   requests, lateVars>>

\* the index of the latest ValidationResult of a document, 0 if none
LatestResult(document_id) ==
    LET own == {i \in DOMAIN results : results[i].document_id = document_id}
    IN  IF own = {} THEN 0 ELSE CHOOSE i \in own : \A j \in own : j <= i

\* POST /documents/{id}/fix and /decision-flow/{id}/apply seen from the blob
\* store, given the result apply() returned for the document's bytes
fix_document_blob(d, result, upload_ok) ==
    /\ d \in documents
    /\ d.minio_version_id \in DOMAIN storage
    /\ LET name == fixed_object_name(d.id, d.filename)
           v == LatestResult(d.id)
       IN  IF ResultHasError(result) \/ ~ShouldSave(result)
           THEN UNCHANGED <<storage, results>>
           ELSE /\ storage' = IF upload_ok
                              THEN PutObject(storage, name,
                                             Encode(result.transformed_content))
                              ELSE storage
                /\ results' = IF v = 0 THEN results
                              ELSE [results EXCEPT ![v] =
                                      [@ EXCEPT
                                         !.fixed_content = result.transformed_content,
                                         !.fixed_path = name,
                                         !.decision_flow =
                                            [action |-> result.action,
                                             score |-> result.score,
                                             risk |-> result.risk]]]
    /\ UNCHANGED <<folders, docs, assignments, resolver, configured, flow,
                   report, oracle_log, documents, validation, reports, requests,
                   lateVars>>

NextStore ==
    \/ \E i \in 1..MaxUploads, fn \in FileNames, c \in UploadContents :
          upload_document_blob(i, fn, c)
    \/ \E d \in documents, c \in BOOLEAN, w \in BOOLEAN :
          validate_document_task(d, c, w)
    \/ \E d \in documents, r \in ApplyResults, ok \in BOOLEAN :
          fix_document_blob(d, r, ok)

SpecStore == InitStore /\ [][NextStore]_vars

\* ======================================================================
\* ValidationService.validate_document, one block of its code per action.
\* A file is described by what the code reads from its bytes: the PDF
\* header, the ZIP directory, the mimetype entry and the parsed ODF document.
\* ======================================================================
EmptyMap == [k \in {} |-> ""]

\* archive entry names
MimetypeEntry == "mimetype"
WordEntry == "word/document.xml"
MacroEntries ==
    {"Basic/Standard/Module1.xml", "Scripts/python/run.py",
     "word/vbaProject.bin", "module.vba", "Macros/Module1.bas"}
OdfMimetype == "application/vnd.oasis.opendocument.text"
OtherMimetype == "application/epub+zip"

\* name.startswith("Basic/") or name.startswith("Scripts/")
StartsWithBasicOrScripts(name) ==
    name \in {"Basic/Standard/Module1.xml", "Scripts/python/run.py"}
\* "vbaProject" in name or name.endswith(".vba") or "macros" in name.lower()
IsDocxMacroName(name) ==
    name \in {"word/vbaProject.bin", "module.vba", "Macros/Module1.bas"}
\* "opendocument" in mimetype
IsOpenDocument(mimetype) == mimetype = OdfMimetype

FileOf(is_pdf, is_zip, names, mimetype, loads, version, metadata, styles) ==
    [is_pdf |-> is_pdf, is_zip |-> is_zip, names |-> names,
     mimetype |-> mimetype, loads |-> loads, version |-> version,
     metadata |-> metadata, styles |-> styles]

\* what _extract_metadata and _extract_styles_simple find in a document
DocMetadata ==
    {EmptyMap, [k \in {"title", "creator"} |-> IF k = "title" THEN "Y" ELSE "A"]}
DocStyles ==
    {EmptyMap,
     [s \in {"Heading 1"} |-> [p \in {"text:font-name"} |-> "Times"]]}
OdfVersions == {"1.2", "1.1"}

\* at most one macro-indicating entry per archive
MacroListings == {{}} \cup {{m} : m \in MacroEntries}

\* a plain-text file: no PDF header, no ZIP directory, no metadata
PlainText == FileOf(FALSE, FALSE, {}, Absent, FALSE, Absent, EmptyMap, EmptyMap)

Files ==
    \* neither an archive nor an ODF document: plain text, a PDF
    {FileOf(pdf, FALSE, {}, Absent, FALSE, Absent, EmptyMap, EmptyMap) :
        pdf \in BOOLEAN}
    \* archives without a mimetype entry, some with a PDF header before them
    \cup {FileOf(pdf, TRUE, w \cup m, Absent, FALSE, Absent, EmptyMap, EmptyMap) :
            pdf \in BOOLEAN, w \in {{}, {WordEntry}}, m \in MacroListings}
    \* archives whose mimetype is not an OpenDocument one
    \cup {FileOf(FALSE, TRUE, {MimetypeEntry} \cup w, OtherMimetype, FALSE,
                 Absent, EmptyMap, EmptyMap) : w \in {{}, {WordEntry}}}
    \* OpenDocument packages that odfpy cannot load
    \cup {FileOf(FALSE, TRUE, {MimetypeEntry} \cup m, OdfMimetype, FALSE,
                 Absent, EmptyMap, EmptyMap) : m \in MacroListings}
    \* OpenDocument packages, some with a PDF header before the archive
    \cup {FileOf(FALSE, TRUE, {MimetypeEntry} \cup m, OdfMimetype, TRUE, v, md, st) :
            m \in MacroListings, v \in OdfVersions, md \in DocMetadata,
            st \in DocStyles}
    \cup {FileOf(TRUE, TRUE, {MimetypeEntry} \cup m, OdfMimetype, TRUE, "1.2",
                 EmptyMap, EmptyMap) : m \in MacroListings}

\* standard_version.rules_json: the metadata dict in insertion order, the
\* styles dict
TitleRule == [metadata |-> << <<"title", "X">> >>, styles |-> EmptyMap]
RulesJsons ==
    {TitleRule,
     [metadata |-> << <<"title", "X">>, <<"creator", "A">> >>,
      styles |-> [s \in {"Heading 1"} |->
                     [p \in {"text:font-name"} |-> "Arial"]]]}

\* report["compliant"] = False; report["errors"].append(msg)
AddError(r, msg) == [r EXCEPT !.compliant = FALSE, !.errors = Append(@, msg)]
\* report["warnings"].append(msg)
AddWarning(r, msg) == [r EXCEPT !.warnings = Append(@, msg)]

PdfNotice == <<"PDF documents only support metadata/format validation. Structural standards are skipped.">>
DocxNotice == <<"Word documents (.docx) support macro detection but skip structural ODF standards.">>
DocxMacros == <<"Macros detected in Word document.">>
Unsupported == <<"Unsupported file format. Please upload ODF, PDF, or Word (.docx) files.">>
InvalidOdf == <<"Invalid ODF file: ">>
OdfMacros == <<"Macros detected. Macros are strictly forbidden.">>
VersionNotice(v) == <<"Document version is not 1.2: ", v>>
VersionError(v) == <<"Strict ODF 1.2 compliance failed. Found version: ", v>>
MissingField(key) == <<"Missing required metadata field: ", key>>
MetadataMismatch(key, value, got) == <<"Metadata mismatch for ", key, value, got>>
StyleMismatch(name, prop, value, got) == <<"Style mismatch: ", name, prop, value, got>>

\* ValidationService._has_macros
has_macros(file) == \E name \in file.names : StartsWithBasicOrScripts(name)
\* ValidationService._has_macros_docx
has_macros_docx(file) == \E name \in file.names : IsDocxMacroName(name)

\* Faulty variant: the report dict is shared between calls
InitialReport_Shared(previous) == previous

\* validate_document starts from a new report dict
InitialReport(previous) == FreshReport

\* Faulty variant: a style mismatch makes the document non-compliant
StyleFinding_Hard(r, msg) == [AddWarning(r, msg) EXCEPT !.compliant = FALSE]

\* _validate_styles records a mismatch as a warning
StyleFinding(r, msg) == AddWarning(r, msg)

validationOther ==
    <<folders, docs, assignments, resolver, configured, flow, report,
      oracle_log, storage, results, documents, requests, lateVars>>

InitValidate ==
    /\ folders = <<>>
    /\ docs = <<>>
    /\ assignments = EmptyBag
    /\ resolver = ResolverIdle
    /\ configured = TRUE
    /\ flow = FlowIdle
    /\ report = NoReport
    /\ oracle_log = <<>>
    /\ storage = [k \in {SourceKey} |-> SourceBytes]
    /\ results = <<>>
    /\ documents = {}
    /\ validation = ValidationIdle
    /\ reports = NoReports
    /\ requests = <<>>
    /\ InitLate

\* validate_document up to its first return or the call of _validate_odf:
\* the new report, the format sniffing and the PDF / DOCX / unsupported
\* branches
validate_document(file, rules) ==
    /\ validation.pc = "idle"
    /\ LET r0 == InitialReport(validation.report)
           call == [pc |-> "done", file |-> file, rules |-> rules,
                    report |-> r0, keys |-> <<>>]
       IN  validation' =
             IF file.is_pdf
             THEN [call EXCEPT !.report =
                      AddWarning([r0 EXCEPT !.format = "PDF"], PdfNotice)]
             ELSE IF file.is_zip /\ MimetypeEntry \in file.names
                     /\ IsOpenDocument(file.mimetype)
             THEN [call EXCEPT !.pc = "load"]
             ELSE IF file.is_zip /\ WordEntry \in file.names
             THEN [call EXCEPT !.report =
                      LET r1 == AddWarning([r0 EXCEPT !.format = "DOCX"], DocxNotice)
                      IN  IF has_macros_docx(file)
                          THEN AddError(r1, DocxMacros) ELSE r1]
             ELSE [call EXCEPT !.report = AddError(r0, Unsupported)]
    /\ UNCHANGED <<validationOther, reports>>

\* _validate_odf: load() of the package
LoadOdf ==
    /\ validation.pc = "load"
    /\ validation' =
         IF validation.file.loads
         THEN [validation EXCEPT !.pc = "version", !.report.format = "ODF"]
         ELSE [validation EXCEPT !.pc = "done",
                                 !.report = AddError(@, InvalidOdf)]
    /\ UNCHANGED <<validationOther, reports>>

\* _validate_odf: the office:version attribute against "1.2"
CheckVersion ==
    /\ validation.pc = "version"
    /\ LET v == validation.file.version IN
       validation' =
         IF v # "1.2"
         THEN [validation EXCEPT !.pc = "macros",
                  !.report = AddError(AddWarning(@, VersionNotice(v)),
                                      VersionError(v))]
         ELSE [validation EXCEPT !.pc = "macros"]
    /\ UNCHANGED <<validationOther, reports>>

\* _validate_odf: "No Macros Allowed", then the metadata rules are read
CheckMacros ==
    /\ validation.pc = "macros"
    /\ validation' =
         [validation EXCEPT
            !.pc = "metadata",
            !.keys = validation.rules.metadata,
            !.report = IF has_macros(validation.file)
                       THEN AddError(@, OdfMacros) ELSE @]
    /\ UNCHANGED <<validationOther, reports>>

\* _validate_odf: one iteration of `for key, value in target_metadata.items()`
CheckMetadataKey ==
    /\ validation.pc = "metadata"
    /\ validation.keys # <<>>
    /\ LET key == Head(validation.keys)[1]
           value == Head(validation.keys)[2]
           doc_metadata == validation.file.metadata
       IN  validation' =
             [validation EXCEPT
                !.keys = Tail(@),
                !.report =
                   IF key \notin DOMAIN doc_metadata
                   THEN AddError(@, MissingField(key))
                   ELSE IF doc_metadata[key] # value
                   THEN AddWarning(@, MetadataMismatch(key, value, doc_metadata[key]))
                   ELSE @]
    /\ UNCHANGED <<validationOther, reports>>

\* the (style, property) pairs _validate_styles finds differing; the rule
\* sets here declare at most one style with one property, so the order in
\* which the dicts are iterated does not show
RECURSIVE StyleMismatches(_, _, _)
StyleMismatches(pairs, allowed_styles, doc_styles) ==
    IF pairs = {} THEN <<>>
    ELSE LET sp == CHOOSE x \in pairs : TRUE
             name == sp[1]
             prop == sp[2]
             rest == StyleMismatches(pairs \ {sp}, allowed_styles, doc_styles)
         IN  IF /\ name \in DOMAIN doc_styles
                /\ prop \in DOMAIN doc_styles[name]
                /\ doc_styles[name][prop] # allowed_styles[name][prop]
             THEN << <<name, prop>> >> \o rest
             ELSE rest

RECURSIVE RecordStyleFindings(_, _, _, _)
RecordStyleFindings(r, found, allowed_styles, doc_styles) ==
    IF found = <<>> THEN r
    ELSE LET name == Head(found)[1]
             prop == Head(found)[2]
         IN  RecordStyleFindings(
                 StyleFinding(r, StyleMismatch(name, prop,
                                               allowed_styles[name][prop],
                                               doc_styles[name][prop])),
                 Tail(found), allowed_styles, doc_styles)

\* _validate_odf: the end of the metadata loop and _validate_styles
ValidateStyles ==
    /\ validation.pc = "metadata"
    /\ validation.keys = <<>>
    /\ LET allowed_styles == validation.rules.styles
           doc_styles == validation.file.styles
           pairs == {<<s, p>> : s \in DOMAIN allowed_styles,
                                p \in UNION {DOMAIN allowed_styles[x] :
                                                x \in DOMAIN allowed_styles}}
           own == {sp \in pairs : sp[2] \in DOMAIN allowed_styles[sp[1]]}
       IN  validation' =
             [validation EXCEPT
                !.pc = "done",
                !.report = RecordStyleFindings(
                               @, StyleMismatches(own, allowed_styles, doc_styles),
                               allowed_styles, doc_styles)]
    /\ UNCHANGED <<validationOther, reports>>

\* the caller takes the report; a later call on the same input is compared
\* with the first report kept for it
validate_return(keep) ==
    /\ validation.pc = "done"
    /\ validation' = [ValidationIdle EXCEPT !.report = validation.report]
    /\ reports' = IF keep /\ ~reports.set
                  THEN [set |-> TRUE, file |-> validation.file,
                        rules |-> validation.rules, report |-> validation.report]
                  ELSE reports
    /\ UNCHANGED validationOther

NextValidate ==
    \/ \E file \in Files, rules \in RulesJsons : validate_document(file, rules)
    \/ LoadOdf
    \/ CheckVersion
    \/ CheckMacros
    \/ CheckMetadataKey
    \/ ValidateStyles
    \/ \E keep \in BOOLEAN : validate_return(keep)

SpecValidate == InitValidate /\ [][NextValidate]_vars

\* ======================================================================
\* The resolver on a folder table that was written outside the application:
\* parent_id is any folder id or null, so the parent relation may hold a
\* cycle. A call that has started keeps running (weak fairness of its loop).
\* A folder that is its own parent makes the loop repeat without changing a
\* local; the tables drawn here hold the cycles through two or more folders,
\* where every iteration changes current_folder_id.
\* ======================================================================
InitCorrupt ==
    /\ folders \in {t \in [1..MaxFolders -> 0..MaxFolders] :
                       \A f \in 1..MaxFolders : t[f] # f}
    /\ docs \in [1..MaxDocs -> 0..MaxFolders]
    /\ assignments = EmptyBag
    /\ resolver = ResolverIdle
    /\ configured = TRUE
    /\ flow = FlowIdle
    /\ report = NoReport
    /\ oracle_log = <<>>
    /\ storage = [k \in {SourceKey} |-> SourceBytes]
    /\ results = <<>>
    /\ InitExt

NextCorrupt ==
    \/ \E tt \in Targets, v \in Versions : assign_standard(tt[1], tt[2], v)
    \/ \E tt \in Targets : ResolveStart(tt[1], tt[2])
    \/ ResolveStep
    \/ ResolveReturn

SpecCorrupt == InitCorrupt /\ [][NextCorrupt]_vars /\ WF_vars(ResolveStep)

\* ======================================================================
\* Concurrent POST /assignments requests. Each request runs in its own
\* session: it selects the first row of the target, and at commit its update
\* or insert reaches the table. Other requests run between the two awaits.
\* ======================================================================
MaxRequests == 2

\* `existing` when the query returned no row
NoRow == Row(NoId, FOLDER, NoVersion)

\* a chain of folders with the documents in the first one
InitConcurrent ==
    /\ folders = [f \in 1..MaxFolders |-> f - 1]
    /\ docs = [i \in 1..MaxDocs |-> 1]
    /\ assignments = EmptyBag
    /\ resolver = ResolverIdle
    /\ configured = TRUE
    /\ flow = FlowIdle
    /\ report = NoReport
    /\ oracle_log = <<>>
    /\ storage = [k \in {SourceKey} |-> SourceBytes]
    /\ results = <<>>
    /\ documents = {}
    /\ validation = ValidationIdle
    /\ reports = NoReports
    /\ requests = <<>>
    /\ InitLate

concurrentOther ==
    <<folders, docs, resolver, configured, flow, report, oracle_log, storage,
      results, documents, validation, reports, lateVars>>

\* assign_standard up to `existing = result.scalars().first()`
assign_select(t, ty, v) ==
    /\ Len(requests) < MaxRequests
    /\ \E existing \in (IF RowsFor(t, ty) = {} THEN {NoRow} ELSE RowsFor(t, ty)) :
          requests' = Append(requests,
              [pc |-> "selected", target_id |-> t, target_type |-> ty,
               standard_version_id |-> v, existing |-> existing])
    /\ UNCHANGED <<assignments, concurrentOther>>

\* assign_standard from `if existing:` to `await db.commit()`: the row that
\* was read is given the new version (it is found by its id, whatever version
\* it holds by now), or a new row is inserted
assign_commit(i) ==
    /\ i \in DOMAIN requests
    /\ requests[i].pc = "selected"
    /\ LET rq == requests[i]
           new == Row(rq.target_id, rq.target_type, rq.standard_version_id)
           rows == RowsFor(rq.target_id, rq.target_type)
           held == IF rq.existing \in rows THEN {rq.existing} ELSE rows
       IN  IF rq.existing # NoRow
           THEN \E old \in held :
                   assignments' = (assignments (-) SetToBag({old}))
                                  (+) SetToBag({new})
           ELSE assignments' = assignments (+) SetToBag({new})
    /\ requests' = [requests EXCEPT ![i].pc = "committed"]
    /\ UNCHANGED concurrentOther

NextConcurrent ==
    \/ \E tt \in Targets, v \in Versions : assign_select(tt[1], tt[2], v)
    \/ \E i \in 1..MaxRequests : assign_commit(i)

SpecConcurrent == InitConcurrent /\ [][NextConcurrent]_vars

\* ======================================================================
\* ValidationService.validate_document_async: the deterministic report is
\* merged with the answer of the compliance oracle; the background task and
\* the synchronous endpoint then store the report with a status.
\* ======================================================================
MaxViolations == 1

\* reports validate_document returns: a PDF, a clean and a macro-carrying
\* DOCX, an unsupported file, a clean ODF 1.2 document, an ODF 1.1 document
\* with macros
DeterministicReports ==
    { AddWarning([FreshReport EXCEPT !.format = "PDF"], PdfNotice),
      AddWarning([FreshReport EXCEPT !.format = "DOCX"], DocxNotice),
      AddError(AddWarning([FreshReport EXCEPT !.format = "DOCX"], DocxNotice),
               DocxMacros),
      AddError(FreshReport, Unsupported),
      [FreshReport EXCEPT !.format = "ODF"],
      AddError(AddError(AddWarning([FreshReport EXCEPT !.format = "ODF"],
                                   VersionNotice("1.1")),
                        VersionError("1.1")), OdfMacros) }

\* obligation_level of a violation: one of the schema's values, or null
ObligationLevels == {"mandatory", "recommended", "optional"}
NullLevel == "null"
ViolationLists ==
    UNION {[1..n -> ObligationLevels \cup {NullLevel}] : n \in 0..MaxViolations}

\* what evaluate_compliance returns: an error dict, None (nothing parsed),
\* or the parsed report (auto_fix_possible, which the merge only copies, is
\* kept at one value)
AiDict(kind, compliant, score, violations, fix) ==
    [kind |-> kind, compliant |-> compliant, compliance_score |-> score,
     violations |-> violations, auto_fix_possible |-> fix]
AiError == AiDict("error", FALSE, 0, <<>>, FALSE)
AiNone == AiDict("None", FALSE, 0, <<>>, FALSE)
ComplianceOutcomes ==
    {AiError, AiNone}
    \cup {AiDict("dict", c, s, vs, f) :
             c \in BOOLEAN, s \in {0, 100}, vs \in ViolationLists, f \in {TRUE}}

\* lvl.upper()
Upper(lvl) ==
    CASE lvl = "mandatory" -> "MANDATORY"
      [] lvl = "recommended" -> "RECOMMENDED"
      [] lvl = "optional" -> "OPTIONAL"

\* f"[{lvl.upper()}] {desc} ({rule_path})"
ViolationError(lvl) == <<"[", Upper(lvl), "] description (rule_path)">>
\* f"AI-enhanced validation failed: {str(e)}"
AiFailedWarning == <<"AI-enhanced validation failed: ">>

\* the report dict with the keys the merge adds, not yet set
Unmerged(r) ==
    [compliant |-> r.compliant, errors |-> r.errors, warnings |-> r.warnings,
     format |-> r.format, ai_evaluation |-> Absent, score |-> NoScore,
     fix_options |-> FALSE]

\* `if ai_service.is_available():` without await: the coroutine object is
\* truthy whatever the configuration
ServiceAvailable == TRUE

\* Faulty variant: the oracle's verdict replaces the deterministic one
MergedCompliant_Override(compliant, ai_compliant) == ai_compliant

\* `if ai_report and ai_report.get("compliant") is False: report["compliant"] = False`
MergedCompliant(compliant, ai_compliant) ==
    IF ai_compliant = FALSE THEN FALSE ELSE compliant

\* the index of the first violation whose lvl.upper() raises, or Len + 1
FirstRaising(vs) ==
    IF \E i \in DOMAIN vs : vs[i] = NullLevel
    THEN CHOOSE i \in DOMAIN vs :
            vs[i] = NullLevel /\ \A j \in 1..(i - 1) : vs[j] # NullLevel
    ELSE Len(vs) + 1

\* lines 32-63: the merge of a report with what the oracle returned,
\* including the `except Exception` around it
MergeReports(r, ai) ==
    IF ai.kind = "None"
    THEN [r EXCEPT !.score = 0, !.fix_options = FALSE]
    ELSE IF ai.kind = "error"
    THEN [r EXCEPT !.ai_evaluation = "evaluation", !.score = 0,
                   !.fix_options = FALSE]
    ELSE LET r1 == [r EXCEPT !.ai_evaluation = "evaluation",
                       !.compliant = MergedCompliant(@, ai.compliant)]
             n == FirstRaising(ai.violations)
             appended == [i \in 1..(n - 1) |-> ViolationError(ai.violations[i])]
         IN  IF ai.compliant
             THEN [r1 EXCEPT !.score = ai.compliance_score,
                             !.fix_options = ai.auto_fix_possible]
             ELSE IF n <= Len(ai.violations)
             THEN [r1 EXCEPT !.errors = @ \o appended,
                             !.warnings = Append(@, AiFailedWarning),
                             !.ai_evaluation = "error"]
             ELSE [r1 EXCEPT !.errors = @ \o appended,
                             !.score = ai.compliance_score,
                             !.fix_options = ai.auto_fix_possible]

augmentOther ==
    <<folders, docs, assignments, resolver, flow, report, oracle_log,
      storage, documents, validation, reports, requests, queue, dispatched,
      versions, promotions>>

InitAugment ==
    /\ folders = <<>>
    /\ docs = <<>>
    /\ assignments = EmptyBag
    /\ resolver = ResolverIdle
    /\ configured \in BOOLEAN
    /\ flow = FlowIdle
    /\ report = NoReport
    /\ oracle_log = <<>>
    /\ storage = [k \in {SourceKey} |-> SourceBytes]
    /\ results = <<>>
    /\ InitExt

\* tasks.validate_document_async up to the merge: the file is read and
\* validate_document returns the deterministic report
service_validate_document_async(det) ==
    /\ augment.pc = "idle"
    /\ Len(results) < MaxResults
    /\ augment' = [AugmentIdle EXCEPT
                      !.pc = IF ServiceAvailable THEN "extract" ELSE "done",
                      !.deterministic = det, !.report = Unmerged(det)]
    /\ UNCHANGED <<augmentOther, configured, results>>

\* rule_extraction_factory.extract_text and `if text:`
augment_extract_text(text) ==
    /\ augment.pc = "extract"
    /\ augment' = [augment EXCEPT !.text = text,
                      !.pc = IF text = "" THEN "done" ELSE "evaluate"]
    /\ UNCHANGED <<augmentOther, configured, results>>

\* ai_service.evaluate_compliance and the merge of its answer
evaluate_compliance(outcome) ==
    /\ augment.pc = "evaluate"
    /\ LET ai_report == IF is_available THEN outcome ELSE AiError IN
       augment' = [augment EXCEPT !.pc = "done", !.ai_report = ai_report,
                      !.report = MergeReports(@, ai_report)]
    /\ UNCHANGED <<augmentOther, configured, results>>

\* the status of the background task (StatusOf) and of the synchronous
\* endpoint: PASS if compliant else FAIL, then WARN if compliant with warnings
EndpointStatusOf_NoWarn(r) == IF r.compliant THEN "PASS" ELSE "FAIL"

EndpointStatusOf(r) ==
    LET status == IF r.compliant THEN "PASS" ELSE "FAIL"
    IN  IF r.compliant /\ r.warnings # <<>> THEN "WARN" ELSE status

\* tasks.validate_document_async after the merge: the ValidationResult row
task_store_result ==
    /\ augment.pc = "done"
    /\ results' = Append(results,
          [via |-> "task",
           status |-> StatusOf(augment.report.compliant,
                               augment.report.warnings # <<>>),
           report |-> augment.report])
    /\ augment' = AugmentIdle
    /\ UNCHANGED <<augmentOther, configured>>

\* POST /validation/{id}/validate: validate_document alone, then the row
validate_document_endpoint(det) ==
    /\ augment.pc = "idle"
    /\ Len(results) < MaxResults
    /\ results' = Append(results,
          [via |-> "endpoint", status |-> EndpointStatusOf(det),
           report |-> Unmerged(det)])
    /\ UNCHANGED <<augmentOther, configured, augment>>

NextAugment ==
    \/ \E det \in DeterministicReports : service_validate_document_async(det)
    \/ \E t \in ExtractOutcomes : augment_extract_text(t)
    \/ \E o \in ComplianceOutcomes : evaluate_compliance(o)
    \/ task_store_result
    \/ \E det \in DeterministicReports : validate_document_endpoint(det)

SpecAugment == InitAugment /\ [][NextAugment]_vars

\* ======================================================================
\* POST /standards/{id}/versions/promote/{document_id}. Each request runs
\* in its own session; the handler awaits between counting the versions of
\* the standard and committing the new one, and other requests run there.
\* ======================================================================
MaxPromotes == 3

\* what extract_rules_async returns for the promoted document, or raises
ExtractedRules == {"rules of document A", "rules of document B"}
ExtractionRaises == "raises"

promoteOther ==
    <<folders, docs, assignments, resolver, configured, flow, report,
      oracle_log, storage, results, documents, validation, reports, requests,
      augment, queue, dispatched>>

InitPromote ==
    /\ folders = <<>>
    /\ docs = <<>>
    /\ assignments = EmptyBag
    /\ resolver = ResolverIdle
    /\ configured = TRUE
    /\ flow = FlowIdle
    /\ report = NoReport
    /\ oracle_log = <<>>
    /\ storage = [k \in {SourceKey} |-> SourceBytes]
    /\ results = <<>>
    /\ InitExt

\* promote up to `next_version = len(versions) + 1`: standard and document
\* exist, the file is read, the rules are extracted (400 if that raises)
promote_select(extracted) ==
    /\ Len(promotions) < MaxPromotes
    /\ promotions' = Append(promotions,
          IF extracted = ExtractionRaises
          THEN [pc |-> "failed", rules |-> extracted, next_version |-> 0,
                status |-> 400]
          ELSE [pc |-> "selected", rules |-> extracted,
                next_version |-> Len(versions) + 1, status |-> 0])
    /\ UNCHANGED <<promoteOther, versions>>

\* promote from `new_version = StandardVersion(...)` to the commit
promote_commit(i) ==
    /\ i \in DOMAIN promotions
    /\ promotions[i].pc = "selected"
    /\ versions' = Append(versions,
          [version_number |-> promotions[i].next_version,
           rules_json |-> promotions[i].rules, is_active |-> TRUE])
    /\ promotions' = [promotions EXCEPT ![i].pc = "committed", ![i].status = 200]
    /\ UNCHANGED promoteOther

NextPromote ==
    \/ \E x \in ExtractedRules \cup {ExtractionRaises} : promote_select(x)
    \/ \E i \in 1..MaxPromotes : promote_commit(i)

SpecPromote == InitPromote /\ [][NextPromote]_vars

\* ======================================================================
\* The task queue. assign_standard and upload dispatch jobs after their
\* commit; a worker takes a job in any order, and a job that is not
\* acknowledged is delivered again. The folder table is a forest; the
\* StandardAssignment table is written by assign_standard alone.
\* ======================================================================
MaxQueue == 2
MaxDeliveries == 2

\* validate_document_task.delay(doc, version) / revalidate_folder_task.delay(folder, version)
ValidateJob(d, v) == [task |-> "validate_document_task", target_id |-> d, version |-> v]
RevalidateJob(f, v) == [task |-> "revalidate_folder_task", target_id |-> f, version |-> v]

\* get_effective_standard_version as a function of the tables: the versions
\* it can return (NoVersion for None), one per row .first() can yield
RECURSIVE WalkVersions(_)
WalkVersions(f) ==
    IF f = NoId THEN {NoVersion}
    ELSE IF AncestorRows(f) # {} THEN VersionsOf(AncestorRows(f))
    ELSE IF f \notin FolderIds THEN {NoVersion}
    ELSE WalkVersions(folders[f])

EffectiveVersions(t, ty) ==
    IF RowsFor(t, ty) # {} THEN VersionsOf(RowsFor(t, ty))
    ELSE WalkVersions(FirstFolder(t, ty))

\* Faulty variant: the query has no where clause
DocumentsIn_All(folder_ids) == DocIds

\* select(Document).where(col(Document.folder_id).in_(folder_ids))
DocumentsIn(folder_ids) == {d \in DocIds : DocFolder(d) \in folder_ids}

\* folder tables in which every parent was created before its child
Forests == {t \in [1..MaxFolders -> 0..MaxFolders] : \A f \in 1..MaxFolders : t[f] < f}

jobsOther ==
    <<resolver, configured, flow, report, oracle_log, storage, documents,
      validation, reports, requests, augment, versions, promotions>>

InitJobs ==
    /\ folders \in Forests
    /\ docs = <<>>
    /\ assignments = EmptyBag
    /\ resolver = ResolverIdle
    /\ configured = TRUE
    /\ flow = FlowIdle
    /\ report = NoReport
    /\ oracle_log = <<>>
    /\ storage = [k \in {SourceKey} |-> SourceBytes]
    /\ results = <<>>
    /\ InitExt

\* POST /documents/upload with its dispatch: the row, then a validation job
\* for the effective standard version if there is one
upload_dispatch(folder_id) ==
    /\ Len(docs) < MaxDocs
    /\ folder_id \in FolderIds \cup {NoId}
    /\ docs' = Append(docs, folder_id)
    /\ LET d == DocId(Len(docs) + 1)
           effective == IF folder_id = NoId THEN {NoVersion}
                        ELSE WalkVersions(folder_id)
       IN  \E v \in effective :
             LET jobs == IF v = NoVersion THEN EmptyBag
                         ELSE SetToBag({ValidateJob(d, v)})
             IN  /\ BagCardinality(queue (+) jobs) <= MaxQueue
                 /\ queue' = queue (+) jobs
                 /\ dispatched' = [NoDispatch EXCEPT !.cause = "upload",
                                      !.target_id = d, !.target_type = DOCUMENT,
                                      !.version = v, !.jobs = jobs]
    /\ UNCHANGED <<folders, assignments, results, jobsOther>>

\* POST /assignments with its dispatch: the row is updated or inserted and
\* committed, then the job for the target is sent
assign_dispatch(t, ty, v) ==
    /\ IF RowsFor(t, ty) # {}
       THEN \E existing \in RowsFor(t, ty) :
                assignments' = (assignments (-) SetToBag({existing}))
                               (+) SetToBag({Row(t, ty, v)})
       ELSE assignments' = assignments (+) SetToBag({Row(t, ty, v)})
    /\ LET jobs == IF ty = FOLDER THEN SetToBag({RevalidateJob(t, v)})
                   ELSE SetToBag({ValidateJob(t, v)})
       IN  /\ BagCardinality(queue (+) jobs) <= MaxQueue
           /\ queue' = queue (+) jobs
           /\ dispatched' = [NoDispatch EXCEPT !.cause = "assign",
                                !.target_id = t, !.target_type = ty,
                                !.version = v, !.jobs = jobs]
    /\ UNCHANGED <<folders, docs, results, jobsOther>>

\* the queue after a delivery: an acknowledged job is gone, another stays
Delivered(job, ack) == IF ack THEN queue (-) SetToBag({job}) ELSE queue

\* revalidate_folder_async: the folder's subtree, its documents, one job each
revalidate_folder_async(job, ack) ==
    /\ BagIn(job, queue)
    /\ job.task = "revalidate_folder_task"
    /\ LET folder_ids == SubfolderIds(job.target_id)
           documents_found == DocumentsIn(folder_ids)
           jobs == SetToBag({ValidateJob(d, job.version) : d \in documents_found})
       IN  /\ BagCardinality(Delivered(job, ack) (+) jobs) <= MaxQueue
           /\ queue' = Delivered(job, ack) (+) jobs
           /\ dispatched' = [NoDispatch EXCEPT !.cause = "revalidate",
                                !.target_id = job.target_id,
                                !.version = job.version,
                                !.folder_ids = folder_ids, !.jobs = jobs]
    /\ UNCHANGED <<folders, docs, assignments, results, jobsOther>>

\* tasks.validate_document_async for a delivered job: document and version
\* exist, the report is built, the ValidationResult row is added
validate_document_job(job, ack, compliant, has_warnings) ==
    /\ BagIn(job, queue)
    /\ job.task = "validate_document_task"
    /\ Len(results) < MaxDeliveries
    /\ results' = Append(results,
          [document_id |-> job.target_id, standard_version_id |-> job.version,
           status |-> StatusOf(compliant, has_warnings)])
    /\ queue' = Delivered(job, ack)
    /\ UNCHANGED <<folders, docs, assignments, dispatched, jobsOther>>

NextJobs ==
    \/ \E p \in 0..MaxFolders : upload_dispatch(p)
    \/ \E tt \in Targets, v \in Versions : assign_dispatch(tt[1], tt[2], v)
    \/ \E job \in BagToSet(queue), ack \in BOOLEAN : revalidate_folder_async(job, ack)
    \/ \E job \in BagToSet(queue), ack \in BOOLEAN, c \in BOOLEAN :
          validate_document_job(job, ack, c, FALSE)

SpecJobs == InitJobs /\ [][NextJobs]_vars

\* Folder re-validation on its own: the folder and document tables are
\* given, one folder-level assignment at a time is followed until its jobs
\* are processed.
InitRevalidate ==
    /\ folders \in Forests
    /\ docs \in [1..MaxDocs -> 0..MaxFolders]
    /\ assignments = EmptyBag
    /\ resolver = ResolverIdle
    /\ configured = TRUE
    /\ flow = FlowIdle
    /\ report = NoReport
    /\ oracle_log = <<>>
    /\ storage = [k \in {SourceKey} |-> SourceBytes]
    /\ results = <<>>
    /\ InitExt

NextRevalidate ==
    \/ \E f \in FolderIds, v \in Versions :
          queue = EmptyBag /\ assign_dispatch(f, FOLDER, v)
    \/ \E job \in BagToSet(queue), ack \in BOOLEAN : revalidate_folder_async(job, ack)
    \/ \E job \in BagToSet(queue) : validate_document_job(job, TRUE, TRUE, FALSE)

SpecRevalidate == InitRevalidate /\ [][NextRevalidate]_vars

\* ======================================================================
\* The fix / apply endpoints seen from the ValidationResult table: several
\* documents, several results per document, each row with its document,
\* standard version, status and report.
\* ======================================================================
MaxFixRows == 3

\* the documents of the table, uploaded before: one that is fixed and
\* one other
FixDocuments ==
    {[id |-> Uuid(i), filename |-> << <<"a.txt">> >>,
      minio_version_id |-> object_name(Uuid(i), << <<"a.txt">> >>),
      hash |-> Sha256(Bytes(FailedMaxLen, FALSE))] : i \in {1, 2}}

\* the validations that ran: against V1 with a compliant report, against
\* V2 with a non-compliant one
ValidationOutcomes ==
    {[version |-> "V1", compliant |-> TRUE], [version |-> "V2", compliant |-> FALSE]}

fixOther ==
    <<folders, docs, assignments, resolver, configured, flow, report,
      oracle_log, documents, validation, reports, requests, lateVars>>

InitFix ==
    /\ folders = <<>>
    /\ docs = <<>>
    /\ assignments = EmptyBag
    /\ resolver = ResolverIdle
    /\ configured = TRUE
    /\ flow = FlowIdle
    /\ report = NoReport
    /\ oracle_log = <<>>
    /\ storage = [k \in {d.minio_version_id : d \in FixDocuments} |->
                     Bytes(FailedMaxLen, FALSE)]
    /\ results = <<>>
    /\ documents = FixDocuments
    /\ validation = ValidationIdle
    /\ reports = NoReports
    /\ requests = <<>>
    /\ InitLate

\* tasks.validate_document_async: a new row for the document and version
store_validation_result(d, v, compliant) ==
    /\ d \in documents
    /\ Len(results) < MaxFixRows
    /\ results' = Append(results,
          [document_id |-> d.id, standard_version_id |-> v,
           status |-> StatusOf(compliant, FALSE),
           report |-> [compliant |-> compliant, fixed_content |-> AbsentText,
                       fixed_path |-> <<>>, decision_flow |-> NoDecisionFlow]])
    /\ UNCHANGED <<storage, fixOther>>

\* Faulty variant: the query has no where clause on the document
RowToUpdate_Any(document_id) == Len(results)

\* select(ValidationResult).where(document_id == ...).order_by(created_at.desc()).limit(1)
RowToUpdate(document_id) == LatestResult(document_id)

\* fix_document / apply_with_decision_flow from `if result.get("transformed_content")`
\* on: the fixed object is written (a failure is printed), the latest
\* ValidationResult of the document gets the three report keys
fix_document_rows(d, result, upload_ok) ==
    /\ d \in documents
    /\ LET name == fixed_object_name(d.id, d.filename)
           v == RowToUpdate(d.id)
       IN  IF ResultHasError(result) \/ ~ShouldSave(result)
           THEN UNCHANGED <<storage, results>>
           ELSE /\ storage' = IF upload_ok
                              THEN PutObject(storage, name,
                                             Encode(result.transformed_content))
                              ELSE storage
                /\ results' = IF v = 0 THEN results
                              ELSE [results EXCEPT ![v].report =
                                      [@ EXCEPT
                                         !.fixed_content = result.transformed_content,
                                         !.fixed_path = name,
                                         !.decision_flow =
                                            [action |-> result.action,
                                             score |-> result.score,
                                             risk |-> result.risk]]]
    /\ UNCHANGED fixOther

NextFix ==
    \/ \E d \in documents, o \in ValidationOutcomes :
          store_validation_result(d, o.version, o.compliant)
    \/ \E d \in documents, r \in ApplyResults, ok \in BOOLEAN :
          fix_document_rows(d, r, ok)

SpecFix == InitFix /\ [][NextFix]_vars

\* ======================================================================
\* Properties
\* ======================================================================
Min(S) == CHOOSE x \in S : \A y \in S : x <= y
LogOps == {oracle_log[i].op : i \in DOMAIN oracle_log}
Called(op) == op \in LogOps
SeqRange(q) == {q[i] : i \in DOMAIN q}

\* The containment chain of a target, nearest first: the target itself, its
\* folder, that folder's parent, ... up to a root.
RECURSIVE FolderChain(_)
FolderChain(f) ==
    IF f = NoId THEN <<>>
    ELSE <<[id |-> f, type |-> FOLDER]>> \o FolderChain(folders[f])
TargetChain(t, ty) ==
    <<[id |-> t, type |-> ty]>>
    \o FolderChain(IF ty = DOCUMENT THEN docs[t - MaxFolders] ELSE folders[t])
AssignedVersions(n) ==
    {r.standard_version_id :
        r \in {x \in BagToSet(assignments) :
                  x.target_id = n.id /\ x.target_type = n.type}}

\* C1: when the resolver returns, its result is the version of an assignment
\* on the nearest node of the chain target -> folder -> ... -> root that has
\* one (the target's own assignment first, FOLDER assignments on ancestors),
\* and it is None exactly when no node of the chain has an assignment.
C1_NearestAssignmentWins ==
    resolver.pc = "done" =>
        LET chain == TargetChain(resolver.target_id, resolver.target_type)
            hits == {i \in DOMAIN chain : AssignedVersions(chain[i]) # {}}
        IN  IF hits = {}
            THEN resolver.result = NoVersion
            ELSE resolver.result \in AssignedVersions(chain[Min(hits)])

\* C1 witness: a document two folders below the only assigned folder
\* resolves to that folder's version (scenario B).
C1_Witness ==
    /\ resolver.pc = "done"
    /\ resolver.target_type = DOCUMENT
    /\ LET chain == TargetChain(resolver.target_id, resolver.target_type)
       IN  /\ Len(chain) = 3
           /\ AssignedVersions(chain[1]) = {}
           /\ AssignedVersions(chain[2]) = {}
           /\ AssignedVersions(chain[3]) # {}
           /\ resolver.result \in AssignedVersions(chain[3])

\* C2: there is at most one StandardAssignment row per (target_id,
\* target_type), whatever assignment operations ran.
C2_OneRowPerTarget ==
    \A t \in FolderIds \cup DocIds, ty \in TargetType :
        BagCardinality([r \in RowsFor(t, ty) |-> CopiesIn(r, assignments)]) <= 1

\* The gating table of the specification.
ExpectedAction(score) ==
    CASE score < 40 -> "report_only"
      [] score >= 40 /\ score < 75 -> "selective_apply"
      [] score >= 75 -> "safe_apply"

\* C3: a report that carries an action carries the action the gating table
\* gives for the score the compatibility analysis returned: report_only below
\* 40, selective_apply from 40 to 74, safe_apply from 75.
C3_ActionFollowsScore ==
    (flow.pc = "returned" /\ report.action # Absent) =>
        /\ Len(oracle_log) >= 2
        /\ oracle_log[2].op = "analyze_compatibility"
        /\ report.action = ExpectedAction(oracle_log[2].score)

\* C3 witness: the boundary score 75 yields safe_apply.
C3_Witness ==
    /\ flow.pc = "returned"
    /\ report.action = "safe_apply"
    /\ oracle_log[2].score = 75

\* C4: no rule listed in forbidden_rules is in the approved list handed to
\* the transform oracle.
C4_ForbiddenNeverApproved ==
    \A i \in DOMAIN oracle_log :
        oracle_log[i].op = "transform_document" =>
            SeqRange(oracle_log[i].approved)
                \cap SeqRange(report.rule_selection.forbidden_rules) = {}

\* C5: the transform oracle is called iff the score is at least 40 and the
\* approved list is non-empty; otherwise the report has no transformed
\* content.
C5_TransformIffGateOpen ==
    /\ flow.pc = "transform" => (flow.analysis.score >= 40 /\ flow.approved # <<>>)
    /\ (flow.pc = "returned" /\ report.action # Absent) =>
          /\ Called("transform_document")
                <=> (report.score >= 40 /\ flow.approved # <<>>)
          /\ ~Called("transform_document") => report.transformed_content = NoneText

\* C5 witness: score 39 with a safe rule selected: no transform call, no
\* transformed content.
C5_Witness ==
    /\ flow.pc = "returned"
    /\ report.action = "report_only"
    /\ report.score = 39
    /\ report.rule_selection.safe_rules # <<>>
    /\ ~Called("transform_document")
    /\ report.transformed_content = NoneText

PhaseOrder ==
    <<"extract_text", "analyze_compatibility", "select_rules", "transform_document">>

\* C6: the calls of one invocation are a prefix of extract, analyze, select,
\* transform; a transform call follows an analysis and a selection of the
\* same invocation that both succeeded, for the same text, and the score given
\* to rule selection and to the gate is the one this analysis returned.
C6_PhasesInOrder ==
    /\ Len(oracle_log) <= Len(PhaseOrder)
    /\ \A i \in DOMAIN oracle_log : oracle_log[i].op = PhaseOrder[i]
    /\ flow.pc = "idle" => oracle_log = <<>>
    /\ Len(oracle_log) >= 3 =>
          /\ oracle_log[2].ok
          /\ oracle_log[3].score = oracle_log[2].score
    /\ Len(oracle_log) >= 4 =>
          /\ oracle_log[1].ok /\ oracle_log[2].ok /\ oracle_log[3].ok
          /\ oracle_log[2].text = oracle_log[1].text
          /\ oracle_log[4].text = oracle_log[2].text
          /\ oracle_log[4].score = oracle_log[2].score

\* C6 witness: an invocation that reached the transform call.
C6_Witness ==
    /\ Len(oracle_log) = 4
    /\ oracle_log[4].op = "transform_document"
    /\ oracle_log[4].score = 74

TransformFailedAt(i) ==
    /\ oracle_log[i].op = "transform_document"
    /\ \/ ~oracle_log[i].ok
       \/ oracle_log[i].returned.failed /\ oracle_log[i].returned.len < 200

\* C8: after a failed transform the report has no transformed content,
\* carries the error, and keeps action, compatibility, score, risk and
\* rule_selection as computed before.
C8_TransformFailureSurfaced ==
    (flow.pc = "returned" /\ \E i \in DOMAIN oracle_log : TransformFailedAt(i)) =>
        /\ report.transformed_content = NoneText
        /\ report.error # NoError
        /\ report.action = flow.action
        /\ report.compatibility = flow.analysis.compatibility
        /\ report.score = flow.analysis.score
        /\ report.risk = flow.analysis.risk
        /\ report.rule_selection = flow.rule_selection

\* C9 as stated: without a credential apply(), called on a document whose
\* text was extracted, completes with action report_only and no transformed
\* content.
C9_DegradesToReportOnly ==
    (flow.pc = "returned" /\ ~configured /\ Called("analyze_compatibility")) =>
        /\ report.action = "report_only"
        /\ ~Truthy(report.transformed_content)

\* C9 amended: without a credential apply() makes no rule selection and no
\* transform call and returns an error result with neither an action nor
\* transformed content; the error is "AI Service not configured" whenever
\* text was extracted.
C9_UnavailableIsError ==
    ~configured =>
        /\ ~Called("select_rules")
        /\ ~Called("transform_document")
        /\ flow.pc = "returned" =>
              /\ report.error \in {NotConfigured, NoTextError}
              /\ Called("analyze_compatibility") => report.error = NotConfigured
              /\ report.action = Absent
              /\ report.transformed_content = AbsentText

\* C9 witness: the error result of an unconfigured oracle.
C9_Witness ==
    /\ ~configured
    /\ flow.pc = "returned"
    /\ Called("analyze_compatibility")
    /\ report.error = NotConfigured

\* C10: a step of a request writes the blob store or a ValidationResult only
\* when the report of that request has no error, has transformed content, and
\* its analysis and rule selection succeeded.
C10_SaveOnlyAfterSuccess ==
    [][(storage' # storage \/ (results' # results /\ flow.pc # "idle")) =>
          /\ report.error = NoError
          /\ Truthy(report.transformed_content)
          /\ Len(oracle_log) = 4
          /\ oracle_log[2].ok
          /\ oracle_log[3].ok]_vars

\* C10 witness: a request answered 500 for a pipeline error while the
\* document has a ValidationResult.
C10_Witness ==
    /\ flow.pc = "responded"
    /\ flow.status = 500
    /\ report.error # NoError
    /\ results # <<>>
    /\ FixedKey \notin DOMAIN storage

\* C11: the object of every uploaded document still holds the bytes that were
\* uploaded (their hash is the one recorded at upload), and the name a fix
\* writes to, fixed/{document_id}/{filename}.fixed.txt, is the storage key of
\* no source document.
C11_SourceNeverOverwritten ==
    /\ \A d \in documents :
          /\ d.minio_version_id \in DOMAIN storage
          /\ Sha256(storage[d.minio_version_id]) = d.hash
    /\ \A d \in documents, e \in documents :
          fixed_object_name(d.id, d.filename) # e.minio_version_id

\* C11 witness: a document was fixed and its artifact is stored, while another
\* document's file name spells out that artifact's path.
C11_Witness ==
    \E d \in documents, e \in documents :
        /\ d.id = Uuid(1)
        /\ d.filename = << <<"a.txt">> >>
        /\ fixed_object_name(d.id, d.filename) \in DOMAIN storage
        /\ e.filename = fixed_object_name(d.id, d.filename)
        /\ Sha256(storage[e.minio_version_id]) = e.hash

\* C12: when the upload of the fixed artifact fails, the request goes on to
\* its 200 response, and the response carries the transformed content and
\* the action, score and risk of the decision report.
C12_StorageFailureTolerated ==
    flow.upload = "failed" =>
        /\ flow.pc \in {"saved", "audit", "responded"}
        /\ flow.status \in {0, 200}
        /\ flow.pc = "responded" =>
              /\ flow.status = 200
              /\ Truthy(flow.body.fixed_content)
              /\ flow.body.fixed_content = report.transformed_content
              /\ flow.body.action = report.action
              /\ flow.body.score = report.score
              /\ flow.body.risk = report.risk

\* C12 witness: a request answered 200 with the transformed content although
\* the artifact is not in the blob store.
C12_Witness ==
    /\ flow.pc = "responded"
    /\ flow.upload = "failed"
    /\ flow.status = 200
    /\ Truthy(flow.body.fixed_content)
    /\ FixedKey \notin DOMAIN storage

C14_MacrosForceNonCompliant ==
    (validation.pc = "done" /\ validation.file.names \cap MacroEntries # {})
        => ~validation.report.compliant

\* the metadata rules as <<key, value>> pairs
MetadataRules == SeqRange(validation.rules.metadata)

\* C15: in a finished validation, every metadata rule key absent from the
\* document has its "Missing required metadata field" error and compliant is
\* false; every key present with another value has its mismatch warning and
\* no such error.
C15_MissingKeyIsError ==
    validation.pc = "done" =>
        \A kv \in MetadataRules :
            LET key == kv[1]
                value == kv[2]
                doc_metadata == validation.file.metadata
                errors == SeqRange(validation.report.errors)
                warnings == SeqRange(validation.report.warnings)
            IN  /\ key \notin DOMAIN doc_metadata =>
                      /\ MissingField(key) \in errors
                      /\ ~validation.report.compliant
                /\ (key \in DOMAIN doc_metadata /\ doc_metadata[key] # value) =>
                      /\ MetadataMismatch(key, value, doc_metadata[key]) \in warnings
                      /\ MissingField(key) \notin errors

\* C16: in every report, while it is built and when it is returned, compliant
\* is false iff errors is non-empty; a step that records no error leaves
\* compliant as it was, and compliant never goes back to true.
C16_CompliantIffNoErrors ==
    [][/\ validation'.pc # "idle" =>
             (~validation'.report.compliant <=> validation'.report.errors # <<>>)
       /\ (validation.pc \notin {"idle", "done"}
              /\ validation'.report.errors = validation.report.errors)
          => validation'.report.compliant = validation.report.compliant
       /\ (validation.pc \notin {"idle", "done"} /\ ~validation.report.compliant)
          => ~validation'.report.compliant]_vars

\* C16 witness: an ODF report with warnings only is compliant.
C16_Witness ==
    /\ validation.pc = "done"
    /\ validation.report.format = "ODF"
    /\ Len(validation.report.warnings) >= 2
    /\ validation.report.errors = <<>>
    /\ validation.report.compliant

\* C17: validating a plain-text file without metadata against a standard
\* whose metadata rules are {"title": "X"} yields compliant = false and an
\* error for the missing title field.
C17_PlainTextMissingTitle ==
    (validation.pc = "done" /\ validation.file = PlainText
        /\ validation.rules = TitleRule) =>
        /\ ~validation.report.compliant
        /\ MissingField("title") \in SeqRange(validation.report.errors)

\* C18: every ancestor walk the resolver starts comes to an end, also on a
\* folder table whose parent relation has a cycle.
C18_WalkTerminates == (resolver.pc = "walk") ~> (resolver.pc = "done")

\* C19: once all of two or more assign_standard requests have committed, each
\* target they named has exactly one StandardAssignment row.
C19_OneRowAfterConcurrentAssign ==
    (Len(requests) >= 2 /\ \A i \in DOMAIN requests : requests[i].pc = "committed")
        => \A i \in DOMAIN requests :
              RowCount(RowsFor(requests[i].target_id, requests[i].target_type)) = 1

\* C20: a result of analyze() or apply() that carries a score carries the
\* risk classification of that score: HIGH from 75, MEDIUM from 40 to 74, LOW
\* below 40; so HIGH goes with safe_apply, MEDIUM with selective_apply and LOW
\* with report_only.
C20_RiskMatchesScore ==
    (flow.pc \in {"select", "transform", "returned"}
        /\ (IF flow.pc = "returned" THEN report.score ELSE flow.analysis.score)
              # NoScore) =>
        LET result == IF flow.pc = "returned" THEN report ELSE flow.analysis
        IN  /\ result.risk = "HIGH" <=> result.score >= 75
            /\ result.risk = "MEDIUM" <=> (result.score >= 40 /\ result.score < 75)
            /\ result.risk = "LOW" <=> result.score < 40
            /\ result.action # Absent =>
                  result.action = CASE result.risk = "HIGH" -> "safe_apply"
                                    [] result.risk = "MEDIUM" -> "selective_apply"
                                    [] OTHER -> "report_only"

\* C24: the warnings of an apply() report follow the gating table: from 40
\* to 74 there is exactly one warning per conditional rule the selection
\* returned, in the selection's order, and the approved list is safe_rules
\* followed by conditional_rules; from 75 and below 40 there is no warning.
C24_WarningsFollowGate ==
    (flow.pc = "returned" /\ report.action # Absent) =>
        LET score == oracle_log[2].score
            sel == report.rule_selection
        IN  /\ (score >= 40 /\ score < 75) =>
                  /\ Len(report.warnings) = Len(sel.conditional_rules)
                  /\ \A i \in DOMAIN report.warnings :
                        report.warnings[i] = sel.conditional_rules[i]
                  /\ flow.approved = sel.safe_rules \o sel.conditional_rules
            /\ (score >= 75 \/ score < 40) => report.warnings = <<>>

\* C24 witness: score 74 with a conditional rule: one warning, the rule
\* approved after the safe ones, and the transform oracle called with it.
C24_Witness ==
    /\ flow.pc = "returned"
    /\ report.action = "selective_apply"
    /\ oracle_log[2].score = 74
    /\ report.rule_selection.conditional_rules # <<>>
    /\ Len(report.warnings) = Len(report.rule_selection.conditional_rules)
    /\ Called("transform_document")

\* what extract_text yields when extraction failed: no text, or the message
\* its `except Exception` returns in place of the text
ExtractionFailed(text) == text = "" \/ text = "Error extracting text: ..."

\* C26: when text extraction failed (the extractor raised, or there is no
\* text) the compatibility oracle is never called, nor any later phase, and
\* the result of the request is an error.
C26_ExtractionFailureStops ==
    (oracle_log # <<>> /\ ExtractionFailed(oracle_log[1].text)) =>
        /\ \A i \in DOMAIN oracle_log : oracle_log[i].op = "extract_text"
        /\ flow.pc = "returned" => report.error # NoError

\* C21: in the merged report of validate_document_async, a violation of
\* obligation level mandatory in the oracle's report makes the final report
\* non-compliant, whatever score and compliant flag the oracle returned.
C21_MandatoryViolationFails ==
    (augment.pc = "done" /\ augment.ai_report.kind = "dict"
        /\ \E i \in DOMAIN augment.ai_report.violations :
              augment.ai_report.violations[i] = "mandatory")
    => augment.report.compliant = FALSE

\* s occurs in t as a subsequence: its entries, in order
RECURSIVE IsSubseq(_, _)
IsSubseq(s, t) ==
    IF s = <<>> THEN TRUE
    ELSE IF t = <<>> THEN FALSE
    ELSE IF Head(s) = Head(t) THEN IsSubseq(Tail(s), Tail(t))
    ELSE IsSubseq(s, Tail(t))

C29_MergeOnlyLowers ==
    augment.pc = "done" =>
        /\ ~augment.deterministic.compliant => ~augment.report.compliant
        /\ IsSubseq(augment.deterministic.errors, augment.report.errors)
        /\ IsSubseq(augment.deterministic.warnings, augment.report.warnings)

\* C29 witness: the deterministic report has errors, the oracle says
\* compliant, the merged report is non-compliant with the same errors.
C29_Witness ==
    /\ augment.pc = "done"
    /\ augment.ai_report.kind = "dict"
    /\ augment.ai_report.compliant
    /\ augment.deterministic.errors # <<>>
    /\ ~augment.report.compliant
    /\ augment.report.errors = augment.deterministic.errors

\* C23: the version numbers of a standard are strictly increasing in
\* creation order, hence unique, after any interleaving of promote requests.
C23_VersionNumbersIncrease ==
    \A i \in DOMAIN versions, j \in DOMAIN versions :
        i < j => versions[i].version_number < versions[j].version_number

\* folder g is f or lies below f at any depth: f is on g's parent chain
InSubtree(g, f) ==
    \E i \in DOMAIN FolderChain(g) : FolderChain(g)[i].id = f

C25_LatestResultIsCurrentVersion ==
    (queue = EmptyBag /\ \A r \in BagToSet(assignments) : r.target_type = DOCUMENT)
    => \A d \in DocIds :
          (RowsFor(d, DOCUMENT) # {} /\ LatestResult(d) # 0) =>
              results[LatestResult(d)].standard_version_id
                  \in VersionsOf(RowsFor(d, DOCUMENT))

\* C28: every validation job a request or a folder re-validation dispatches
\* names the effective standard version of its document at that moment; for
\* a re-validation, the case looked at is the one where the folder still has
\* the version the re-validation was sent for.
C28_JobsUseEffectiveVersion ==
    (dispatched.cause = "revalidate" =>
        VersionsOf(RowsFor(dispatched.target_id, FOLDER)) = {dispatched.version})
    => \A j \in BagToSet(dispatched.jobs) :
          j.task = "validate_document_task" =>
              j.version \in EffectiveVersions(j.target_id, DOCUMENT)

\* the rows a step changed
ChangedRows == {i \in DOMAIN results : i \in DOMAIN results' /\ results'[i] # results[i]}

\* C30: a fix that succeeds creates no ValidationResult row and changes at
\* most one: the most recent row of the fixed document, in which only the
\* report keys fixed_content, fixed_path and decision_flow are set; status,
\* document_id, standard_version_id and the other report keys of that row,
\* the older rows of the document and the rows of other documents stay.
C30_FixTouchesLatestOnly ==
    [][ \A d \in documents, ok \in BOOLEAN,
           r \in {x \in ApplyResults : ~ResultHasError(x) /\ ShouldSave(x)} :
          fix_document_rows(d, r, ok) =>
             /\ Len(results') = Len(results)
             /\ Cardinality(ChangedRows) <= 1
             /\ \A i \in ChangedRows :
                   /\ results[i].document_id = d.id
                   /\ \A j \in DOMAIN results :
                         results[j].document_id = d.id => j <= i
                   /\ results'[i] =
                         [results[i] EXCEPT
                            !.report.fixed_content = r.transformed_content,
                            !.report.fixed_path = fixed_object_name(d.id, d.filename),
                            !.report.decision_flow = results'[i].report.decision_flow]
      ]_vars

\* C30 witness: a document with an older and a fixed latest result, next to
\* an untouched result of another document.
C30_Witness ==
    \E i, j, k \in DOMAIN results :
        /\ i < j
        /\ results[i].document_id = results[j].document_id
        /\ results[k].document_id # results[i].document_id
        /\ results[j].report.fixed_content # AbsentText
        /\ results[i].report.fixed_content = AbsentText
        /\ results[k].report.fixed_content = AbsentText

====
